---- MODULE Spec2Model ----
(***************************************************************************)
(* Model of py_versione_oggetti.py: the version-resource readers           *)
(* (translation table, string resolver, fixed-info decoder), the label     *)
(* fallback chain, the per-file extraction task and the main pipeline      *)
(* (marker file, scan, worker count, thread pool, CSV).                    *)
(*                                                                         *)
(* Text is modelled as sequences of one-character strings, so that         *)
(* trimming, extension stripping, hex and decimal formatting are computed  *)
(* and not assumed.                                                        *)
(***************************************************************************)
EXTENDS Integers, Sequences, FiniteSets, TLC

VARIABLES q, f, tc, pc, semFile, semPath, roots, allFiles, maxThreads,
          pending, running, finished, yielded, taken, results, csv, raised, removal

qvars == <<q>>
fvars == <<f>>
tvars == <<tc>>
mvars == <<pc, semFile, semPath, roots, allFiles, maxThreads,
           pending, running, finished, yielded, taken, results, csv, raised, removal>>
vars == <<q, f, tc, pc, semFile, semPath, roots, allFiles, maxThreads,
          pending, running, finished, yielded, taken, results, csv, raised, removal>>

----------------------------------------------------------------------------
(* Bounds of the model *)

\* most 4-byte groups a translation table holds
MaxGroups == 2

\* most root paths on the command line
MaxRoots == 2

\* most logical processors, and the widest --max-threads value (also negated)
MaxCpus == 64
MaxThreadArg == 34

----------------------------------------------------------------------------
(* Text helpers *)

HexChars == <<"0","1","2","3","4","5","6","7","8","9","A","B","C","D","E","F">>

\* f"{n:04X}" for a 16-bit n
Hex4(n) ==
    << HexChars[((n \div 4096) % 16) + 1], HexChars[((n \div 256) % 16) + 1],
       HexChars[((n \div 16) % 16) + 1],   HexChars[(n % 16) + 1] >>

RECURSIVE Dec(_)
\* f"{n}" for a natural number n
Dec(n) == IF n < 10 THEN <<HexChars[n + 1]>>
          ELSE Dec(n \div 10) \o <<HexChars[(n % 10) + 1]>>

IsSpace(c) == c \in {" ", "\t"}

RECURSIVE LStrip(_)
LStrip(s) == IF s # <<>> /\ IsSpace(Head(s)) THEN LStrip(Tail(s)) ELSE s

RECURSIVE RStrip(_)
RStrip(s) == IF s # <<>> /\ IsSpace(s[Len(s)]) THEN RStrip(SubSeq(s, 1, Len(s) - 1)) ELSE s

\* str.strip()
Strip(s) == RStrip(LStrip(s))

----------------------------------------------------------------------------
(* The version resource of a file, as VerQueryValueW shows it *)

\* struct.unpack('<H', two bytes)
UnpackH(b0, b1) == b0 + 256 * b1

\* the answer of a query that returned FALSE
QueryFail == [kind |-> "fail"]

\* VerQueryValueW(buffer, "\StringFileInfo\<translation>\<key>")
QueryString(buffer, translation, key) ==
    IF <<translation, key>> \in DOMAIN buffer.strs
    THEN buffer.strs[<<translation, key>>]
    ELSE QueryFail

StaticTranslations ==
    << <<"0","4","0","9","0","4","B","0">>,
       <<"0","4","0","9","0","4","E","4">>,
       <<"0","4","1","0","0","4","B","0">>,
       <<"0","4","1","0","0","4","E","4">>,
       <<"0","4","0","7","0","4","B","0">>,
       <<"0","4","0","C","0","4","B","0">>,
       <<"0","8","0","9","0","4","B","0">>,
       <<"0","0","0","0","0","4","B","0">>,
       <<"0","0","0","0","0","4","E","4">> >>

\* one pass of the loop body at offset i: two string_at reads of 2 bytes each; a
\* read outside the readable memory raises and the group is skipped
DecodeGroup(t, i) ==
    IF i + 4 <= Len(t.mem)
    THEN << Hex4(UnpackH(t.mem[i + 1], t.mem[i + 2])) \o
            Hex4(UnpackH(t.mem[i + 3], t.mem[i + 4])) >>
    ELSE <<>>

RECURSIVE DecodeFrom(_, _)
\* for i in range(i, length, 4)
DecodeFrom(t, i) ==
    IF i >= t.len THEN <<>> ELSE DecodeGroup(t, i) \o DecodeFrom(t, i + 4)

\* the translations the table declares (empty when the query fails or raises)
DeclaredTranslations(t) ==
    IF t.kind = "ok" /\ t.len >= 4 THEN DecodeFrom(t, 0) ELSE <<>>

get_all_available_translations(buffer) ==
    LET translations == DeclaredTranslations(buffer.trans)
    IN  IF translations = <<>> THEN StaticTranslations ELSE translations

ProbeNoStripMutant(buffer, key, translation) ==
    LET r == QueryString(buffer, translation, key)
    IN  IF r.kind = "ok" /\ r.len > 0 /\ r.str # <<>> THEN r.str ELSE <<>>

\* the value one iteration of the resolver's loop accepts, or <<>>
ProbeTranslation(buffer, key, translation) ==
    LET r == QueryString(buffer, translation, key)
    IN  IF r.kind = "ok" /\ r.len > 0 /\ r.str # <<>> /\ Strip(r.str) # <<>>
        THEN Strip(r.str)
        ELSE <<>>

RECURSIVE ResolveFrom(_, _, _, _)
ResolveFrom(buffer, key, translations, i) ==
    IF i > Len(translations) THEN <<>>
    ELSE LET v == ProbeTranslation(buffer, key, translations[i])
         IN  IF v # <<>> THEN v ELSE ResolveFrom(buffer, key, translations, i + 1)

get_string_from_version_info(buffer, key, translations) ==
    ResolveFrom(buffer, key, translations, 1)

----------------------------------------------------------------------------
(* Fixed version record *)

\* ctypes.sizeof(VS_FIXEDFILEINFO): thirteen DWORDs
SizeofFixedInfo == 52

\* A DWORD is held as its four bytes in memory order (little-endian).
\* (dw >> 16) & 0xFFFF, win32api.HIWORD
HIWORD(dw) == dw[3] + 256 * dw[4]
\* dw & 0xFFFF, win32api.LOWORD
LOWORD(dw) == dw[1] + 256 * dw[2]

\* f"{major}.{minor}.{build}.{revision}"
FormatVersion(major, minor, build, revision) ==
    Dec(major) \o <<".">> \o Dec(minor) \o <<".">> \o Dec(build) \o <<".">> \o Dec(revision)

\* the native read of the root block "\": file_version, or <<>> when it stays empty
NativeVersion(buffer) ==
    LET r == buffer.fixed
    IN  IF r.kind = "ok" /\ r.len >= SizeofFixedInfo
        THEN FormatVersion(HIWORD(r.ms), LOWORD(r.ms), HIWORD(r.ls), LOWORD(r.ls))
        ELSE <<>>

----------------------------------------------------------------------------
(* Path helpers (os.path of Windows: both separators) *)

IsSep(c) == c \in {"/", "\\"}

\* index of the last element of s satisfying the test, 0 when none
LastSep(s) ==
    LET I == {i \in 1..Len(s) : IsSep(s[i])}
    IN  IF I = {} THEN 0 ELSE CHOOSE i \in I : \A j \in I : j <= i

LastDot(s) ==
    LET I == {i \in 1..Len(s) : s[i] = "."}
    IN  IF I = {} THEN 0 ELSE CHOOSE i \in I : \A j \in I : j <= i

\* os.path.basename
basename(p) == SubSeq(p, LastSep(p) + 1, Len(p))

\* os.path.splitext(p)[0]: the last dot starts the extension unless only dots
\* stand between the last separator and it
splitext_root(p) ==
    LET sepIndex == LastSep(p)
        dotIndex == LastDot(p)
    IN  IF dotIndex > sepIndex
           /\ \E j \in (sepIndex + 1)..(dotIndex - 1) : p[j] # "."
        THEN SubSeq(p, 1, dotIndex - 1)
        ELSE p

----------------------------------------------------------------------------
(* The label and version of one file.  A file is                           *)
(*   [path, stat, load, buffer]: stat in {"ok", "fail", "badtime"},        *)
(*   load in {"ok", "nosize", "getfail"} (GetFileVersionInfoSizeW /        *)
(*   GetFileVersionInfoW), buffer = [trans, strs, fixed].                  *)
(* env = [native, pywin32]: WINDOWS_API_AVAILABLE, and whether             *)
(* "import win32api" succeeds.                                             *)

NoneValue == [isNone |-> TRUE]

get_version_info_local(file, key, env) ==
    IF ~env.native THEN NoneValue
    ELSE IF file.load # "ok" THEN NoneValue
    ELSE LET translations == get_all_available_translations(file.buffer)
             value == get_string_from_version_info(file.buffer, key, translations)
         IN  IF value # <<>>
             THEN [isNone |-> FALSE, Value |-> value, Translation |-> "Found"]
             ELSE NoneValue

\* product_name after the native chain (lines 289-306)
NativeLabel(buffer, translations) ==
    LET p1 == get_string_from_version_info(buffer, "ProductName", translations)
        p2 == IF p1 = <<>>
              THEN get_string_from_version_info(buffer, "FileDescription", translations)
              ELSE p1
        p3 == IF p2 = <<>>
              THEN get_string_from_version_info(buffer, "InternalName", translations)
              ELSE p2
        original_name == get_string_from_version_info(buffer, "OriginalFilename", translations)
    IN  IF p3 = <<>> /\ original_name # <<>> THEN splitext_root(original_name) ELSE p3

\* win32api.GetFileVersionInfo(file_path, "\"): the root record as a dict.  The
\* library loads the resource itself, raises when the load or the query fails,
\* returns None for a zero-length value (the subscript then raises), and otherwise
\* reads the record at the pointer without looking at its length.
PyFixedInfo(file) ==
    IF file.load = "ok" /\ file.buffer.fixed.kind = "ok" /\ file.buffer.fixed.len > 0
    THEN [raised |-> FALSE, FileVersionMS |-> file.buffer.fixed.ms,
                            FileVersionLS |-> file.buffer.fixed.ls]
    ELSE [raised |-> TRUE]

\* file_version after lines 314-321
PyVersion(file) ==
    LET version_info == PyFixedInfo(file)
    IN  IF version_info.raised THEN <<>>
        ELSE FormatVersion(HIWORD(version_info.FileVersionMS), LOWORD(version_info.FileVersionMS),
                           HIWORD(version_info.FileVersionLS), LOWORD(version_info.FileVersionLS))

\* win32api.GetFileVersionInfo(file_path, "\StringFileInfo\<cp>\<key>"): the raw
\* string, <<>> for None (zero-length value), or raised
PyString(file, cp, key) ==
    LET r == IF file.load = "ok" THEN QueryString(file.buffer, cp, key) ELSE QueryFail
    IN  IF r.kind # "ok" THEN [raised |-> TRUE]
        ELSE [raised |-> FALSE, value |-> IF r.len > 0 THEN r.str ELSE <<>>]

PyCodepages ==
    << <<"0","4","0","9","0","4","B","0">>,
       <<"0","4","0","9","0","4","E","4">>,
       <<"0","4","1","0","0","4","B","0">>,
       <<"0","4","1","0","0","4","E","4">>,
       <<"0","0","0","0","0","4","B","0">>,
       <<"0","4","0","7","0","4","B","0">>,
       <<"0","4","0","C","0","4","B","0">> >>

RECURSIVE PyLoop(_, _, _, _)
\* "for cp in codepages" from the i-th codepage on, product_name being the value
\* the variable holds: a raising lookup leaves it, any other lookup overwrites it,
\* and the loop breaks with the stripped value once it is not blank
PyLoop(file, key, i, product_name) ==
    IF i > Len(PyCodepages) THEN product_name
    ELSE LET r == PyString(file, PyCodepages[i], key)
         IN  IF r.raised THEN PyLoop(file, key, i + 1, product_name)
             ELSE IF r.value # <<>> /\ Strip(r.value) # <<>> THEN Strip(r.value)
             ELSE PyLoop(file, key, i + 1, r.value)

\* product_name after lines 324-356, entered with an empty product_name
PyLabel(file) ==
    LET p1 == PyLoop(file, "ProductName", 1, <<>>)
        p2 == IF p1 = <<>> THEN PyLoop(file, "FileDescription", 1, p1) ELSE p1
        p3 == IF p2 = <<>> THEN PyLoop(file, "InternalName", 1, p2) ELSE p2
    IN  p3

ZeroVersion == <<"0", ".", "0", ".", "0", ".", "0">>

get_file_version_info(file, env) ==
    LET nativeOk == env.native /\ file.load = "ok"
        translations == get_all_available_translations(file.buffer)
        v1 == IF nativeOk THEN NativeVersion(file.buffer) ELSE <<>>
        n1 == IF nativeOk THEN NativeLabel(file.buffer, translations) ELSE <<>>
        usePy == (n1 = <<>> \/ v1 = <<>>) /\ env.pywin32
        v2 == IF usePy /\ v1 = <<>> THEN PyVersion(file) ELSE v1
        n2 == IF usePy /\ n1 = <<>> THEN PyLabel(file) ELSE n1
    IN  [product_name |-> IF n2 = <<>> THEN splitext_root(basename(file.path)) ELSE n2,
         file_version |-> IF v2 = <<>> THEN ZeroVersion ELSE v2]

NoneRecord == [isNone |-> TRUE]

ProcessAlwaysComposeMutant(file, key, env) ==
    IF file.stat # "ok" THEN NoneRecord
    ELSE LET value_info == get_version_info_local(file, key, env)
             info == get_file_version_info(file, env)
         IN  [isNone |-> FALSE, PercorsoCompleto |-> file.path,
              Package |-> IF ~value_info.isNone
                          THEN value_info.Value \o <<" ", "-", " ">> \o info.file_version
                          ELSE info.product_name \o <<" ", "-", " ">> \o info.file_version,
              DataOra |-> file.mtime, Dimensione |-> file.size]

\* the record of one file, or None: os.stat or datetime.fromtimestamp raising is
\* caught by the outer handler.  DataOra and Dimensione are carried as the stat
\* values (their formatting plays no part in what is checked here).
process_file(file, key, env) ==
    IF file.stat # "ok" THEN NoneRecord
    ELSE LET value_info == get_version_info_local(file, key, env)
             info == get_file_version_info(file, env)
         IN  [isNone |-> FALSE, PercorsoCompleto |-> file.path,
              Package |-> IF ~value_info.isNone /\ value_info.Value # <<>>
                          THEN value_info.Value
                          ELSE info.product_name \o <<" ", "-", " ">> \o info.file_version,
              DataOra |-> file.mtime, Dimensione |-> file.size]

----------------------------------------------------------------------------
(* Inputs: version resources built from a few language/codepage pairs *)

LangCp == { <<1033, 1200>>, <<0, 1252>>, <<1033, 0>> }

\* the four bytes of one table entry, little-endian words
EncodeGroup(pair) ==
    << pair[1] % 256, pair[1] \div 256, pair[2] % 256, pair[2] \div 256 >>

RECURSIVE EncodeGroups(_)
EncodeGroups(g) == IF g = <<>> THEN <<>> ELSE EncodeGroup(Head(g)) \o EncodeGroups(Tail(g))

CodeOf(pair) == Hex4(pair[1]) \o Hex4(pair[2])

V_040904B0 == CodeOf(<<1033, 1200>>)
V_000004E4 == CodeOf(<<0, 1252>>)
V_04090000 == CodeOf(<<1033, 0>>)

\* a table whose query succeeds with its whole encoding
TableOf(g) == [kind |-> "ok", len |-> 4 * Len(g), mem |-> EncodeGroups(g)]

GroupSeqs == UNION { [1..n -> LangCp] : n \in 0..MaxGroups }

\* every table: the query fails or raises, or succeeds with a declared length len
\* over readable memory mem, which holds at least the len declared bytes
QTables ==
    { QueryFail, [kind |-> "raise"] } \cup
    UNION { UNION { { [kind |-> "ok", len |-> l, mem |-> SubSeq(EncodeGroups(g), 1, m)]
                      : l \in 0..m } : m \in 0..(4 * Len(g)) } : g \in GroupSeqs }

StrOf(s) == [kind |-> "ok", len |-> Len(s) + 1, str |-> s]

QKey == "ProductName"

QOutcomes ==
    { QueryFail, [kind |-> "raise"], [kind |-> "ok", len |-> 0, str |-> <<>>],
      StrOf(<<>>), StrOf(<<" ">>), StrOf(<<"a">>), StrOf(<<" ", "b", "\t">>) }

QVariants == { V_040904B0, V_000004E4, V_04090000 }

QStrs == [ {<<v, QKey>> : v \in QVariants} -> QOutcomes ]

NoStrs == [p \in {} |-> QueryFail]

NoFixed == QueryFail

----------------------------------------------------------------------------
(* Specification of the two readers: a translation table is read, then one *)
(* key is resolved over the translations it gave                           *)

QInit ==
    q \in { [pc |-> "table", trans |-> t, translations |-> <<>>, strs |-> NoStrs,
             result |-> <<>>] : t \in QTables }

QBuffer(strs) == [trans |-> q.trans, strs |-> strs, fixed |-> NoFixed]

QReadTranslations ==
    /\ q.pc = "table"
    /\ q' = [q EXCEPT !.pc = "resolve",
                      !.translations = get_all_available_translations(QBuffer(NoStrs))]
    /\ UNCHANGED <<f, tc, mvars>>

QResolve ==
    /\ q.pc = "resolve"
    /\ \E strs \in QStrs :
         q' = [q EXCEPT !.pc = "done", !.strs = strs,
                        !.result = get_string_from_version_info(QBuffer(strs), QKey,
                                                                q.translations)]
    /\ UNCHANGED <<f, tc, mvars>>

QIdle == [pc |-> "idle"]

----------------------------------------------------------------------------
(* Specification of one file's extraction *)

FKey == "Package"

Envs == { [native |-> TRUE, pywin32 |-> TRUE], [native |-> TRUE, pywin32 |-> FALSE],
          [native |-> FALSE, pywin32 |-> FALSE] }

\* one string table under variant v; each key is absent or holds one of its values
FStrTables(v) ==
    { [p \in {<<v, k>> : k \in K} |-> StrOf(val[p[2]])] :
        K \in SUBSET {"Package", "ProductName", "FileDescription", "InternalName",
                      "OriginalFilename"},
        val \in { [Package |-> pk, ProductName |-> pn, FileDescription |-> <<"D">>,
                   InternalName |-> <<"I">>, OriginalFilename |-> <<"o", ".", "x">>] :
                  pk \in {<<" ">>, <<" ", "P">>}, pn \in {<<" ">>, <<"N", " ">>} } }

FTables == { QueryFail, TableOf(<< <<1033, 1200>> >>), TableOf(<< <<1033, 0>> >>),
             TableOf(<< <<0, 1252>>, <<1033, 1200>> >>) }

FFixed == { QueryFail,
            [kind |-> "ok", len |-> SizeofFixedInfo, ms |-> <<2, 0, 1, 0>>, ls |-> <<4, 0, 3, 0>>],
            [kind |-> "ok", len |-> SizeofFixedInfo, ms |-> <<0, 0, 255, 255>>, ls |-> <<255, 255, 0, 0>>],
            [kind |-> "ok", len |-> 0, ms |-> <<0, 0, 0, 0>>, ls |-> <<0, 0, 0, 0>>],
            [kind |-> "ok", len |-> 20, ms |-> <<8, 0, 7, 0>>, ls |-> <<9, 0, 0, 0>>] }

FBuffers ==
    { [trans |-> t, strs |-> s, fixed |-> x] :
        t \in FTables, s \in UNION { FStrTables(v) : v \in QVariants }, x \in FFixed }

NoBuffer == [trans |-> QueryFail, strs |-> NoStrs, fixed |-> NoFixed]

P_d_f_e == <<"d", "/", "f", ".", "e">>
P_dx_dot_e == <<"d", ".", "x", "/", ".", "e">>
P_g == <<"g">>

FFiles ==
    { [path |-> P_d_f_e, stat |-> "ok", mtime |-> 1, size |-> 2, load |-> "ok", buffer |-> b] :
        b \in FBuffers } \cup
    { [path |-> p, stat |-> st, mtime |-> 1, size |-> 2, load |-> ld, buffer |-> NoBuffer] :
        p \in {P_d_f_e, P_dx_dot_e, P_g}, st \in {"ok", "fail", "badtime"},
        ld \in {"nosize", "getfail"} }

FInit ==
    f \in { [pc |-> "start", file |-> x, env |-> e, value_info |-> NoneValue,
             info |-> [called |-> FALSE], record |-> NoneRecord] :
            x \in FFiles, e \in Envs }

\* process_file on the file, keeping what its two callees returned
FProcess ==
    /\ f.pc = "start"
    /\ LET record == process_file(f.file, FKey, f.env)
           value_info == get_version_info_local(f.file, FKey, f.env)
           info == get_file_version_info(f.file, f.env)
       IN  f' = [f EXCEPT !.pc = "done", !.record = record,
                   !.value_info = IF f.file.stat = "ok" THEN value_info ELSE NoneValue,
                   !.info = IF f.file.stat = "ok" /\ value_info.isNone
                            THEN [called |-> TRUE, product_name |-> info.product_name,
                                  file_version |-> info.file_version]
                            ELSE [called |-> FALSE]]
    /\ UNCHANGED <<q, tc, mvars>>

FIdle == [pc |-> "idle"]

----------------------------------------------------------------------------
(* Worker count (main, lines 486-493) *)

THREADS_MIN == 1
THREADS_CAP == 32

Min(a, b) == IF a <= b THEN a ELSE b
Max(a, b) == IF a >= b THEN a ELSE b

NoArg == [given |-> FALSE]

\* arg is args.max_threads: not given (None) or an integer; "if args.max_threads"
\* is false for None and for 0
WorkerCount(arg, logical_processors) ==
    LET computed_threads == Min(THREADS_CAP, Max(THREADS_MIN, 2 * logical_processors))
        max_threads == IF arg.given /\ arg.value # 0 THEN arg.value ELSE computed_threads
    IN  Min(THREADS_CAP, Max(THREADS_MIN, max_threads))

ThreadArgs == { NoArg } \cup { [given |-> TRUE, value |-> n] : n \in (0 - MaxThreadArg)..MaxThreadArg }

\* the worker-count inputs the pipeline is run with: they give pools of 1, 2 and
\* 32 workers, fewer than, as many as and more than the tasks of a scan
MainThreadArgs == { NoArg } \cup { [given |-> TRUE, value |-> n] : n \in {0, 1, 2, 40} }
MainCpus == {1, 16}

TInit ==
    tc \in { [pc |-> "start", arg |-> a, cpus |-> c, max_threads |-> 0] :
            a \in ThreadArgs, c \in 1..MaxCpus }

TCompute ==
    /\ tc.pc = "start"
    /\ tc' = [tc EXCEPT !.pc = "done", !.max_threads = WorkerCount(tc.arg, tc.cpus)]
    /\ UNCHANGED <<q, f, mvars>>

TIdle == [pc |-> "idle"]

----------------------------------------------------------------------------
(* The file system the pipeline scans.  A directory is a sequence of        *)
(* one-character names below the current directory, a file is a directory  *)
(* followed by a file name (a sequence of characters).                      *)

N_a_exe == <<"a", ".", "e", "x", "e">>
N_c_txt == <<"c", ".", "t", "x", "t">>
N_B_DLL == <<"B", ".", "D", "L", "L">>
N_k_eXe == <<"k", ".", "e", "X", "e">>
N_exe == <<"e", "x", "e">>

Dirs == { <<"d">>, <<"d", "s">> }

DirFiles(dir) ==
    IF dir = <<"d">> THEN <<N_a_exe, N_c_txt>>
    ELSE IF dir = <<"d", "s">> THEN <<N_B_DLL, N_exe, N_k_eXe>>
    ELSE <<>>

DirSubdirs(dir) == IF dir = <<"d">> THEN <<"s">> ELSE <<>>

\* the spellings a root path may have: "NUL" stands for an embedded null
\* character, which os.path.abspath refuses with ValueError
RootSpellings ==
    { <<"d">>, <<"d", "s">>, <<"d", "s", "..">>, <<"x">>, <<"NUL">> }

RECURSIVE Normalize(_, _)
\* os.path.normpath: "." is dropped, ".." removes the component before it
Normalize(done, rest) ==
    IF rest = <<>> THEN done
    ELSE IF Head(rest) = "." THEN Normalize(done, Tail(rest))
    ELSE IF Head(rest) = ".." /\ done # <<>>
         THEN Normalize(SubSeq(done, 1, Len(done) - 1), Tail(rest))
    ELSE Normalize(Append(done, Head(rest)), Tail(rest))

\* os.path.abspath
abspath(root_path) ==
    IF \E i \in 1..Len(root_path) : root_path[i] = "NUL"
    THEN [raised |-> TRUE]
    ELSE [raised |-> FALSE, path |-> Normalize(<<>>, root_path)]

\* os.path.exists
exists(path) == path \in Dirs

LowerChar(c) ==
    CASE c = "B" -> "b" [] c = "D" -> "d" [] c = "E" -> "e" [] c = "L" -> "l"
      [] c = "X" -> "x" [] OTHER -> c

\* str.lower()
Lower(s) == [i \in 1..Len(s) |-> LowerChar(s[i])]

\* str.endswith
EndsWith(s, suffix) ==
    Len(s) >= Len(suffix) /\ SubSeq(s, Len(s) - Len(suffix) + 1, Len(s)) = suffix

\* file.lower().endswith(('.exe', '.dll'))
IsCandidate(file) ==
    EndsWith(Lower(file), <<".", "e", "x", "e">>) \/ EndsWith(Lower(file), <<".", "d", "l", "l">>)

Range(s) == { s[i] : i \in 1..Len(s) }

RECURSIVE Walk(_)
RECURSIVE WalkEach(_, _)
\* os.walk(top), top-down: the directory itself, then each subdirectory
Walk(dir) == << [root |-> dir, files |-> DirFiles(dir)] >> \o WalkEach(dir, DirSubdirs(dir))
WalkEach(dir, subs) ==
    IF subs = <<>> THEN <<>>
    ELSE Walk(Append(dir, Head(subs))) \o WalkEach(dir, Tail(subs))

AddFileNoSeenMutant(all_files, root, file) ==
    IF IsCandidate(file) THEN Append(all_files, Append(root, file)) ELSE all_files

\* the body of "for file in files"; seen_paths always holds the elements of all_files
AddFile(all_files, root, file) ==
    LET full_path == Append(root, file)
    IN  IF IsCandidate(file) /\ full_path \notin Range(all_files)
        THEN Append(all_files, full_path)
        ELSE all_files

RECURSIVE AddFiles(_, _, _)
AddFiles(all_files, root, files) ==
    IF files = <<>> THEN all_files
    ELSE AddFiles(AddFile(all_files, root, Head(files)), root, Tail(files))

RECURSIVE AddWalk(_, _)
AddWalk(all_files, walk) ==
    IF walk = <<>> THEN all_files
    ELSE AddWalk(AddFiles(all_files, Head(walk).root, Head(walk).files), Tail(walk))

\* one pass of "for root_path in root_paths"
ScanRoot(all_files, root_path) ==
    LET resolved_path == abspath(root_path)
    IN  IF resolved_path.raised THEN all_files
        ELSE IF exists(resolved_path.path) THEN AddWalk(all_files, Walk(resolved_path.path))
        ELSE all_files

RECURSIVE ScanFrom(_, _)
ScanFrom(all_files, root_paths) ==
    IF root_paths = <<>> THEN all_files
    ELSE ScanFrom(ScanRoot(all_files, Head(root_paths)), Tail(root_paths))

scan_files(root_paths) == ScanFrom(<<>>, root_paths)

----------------------------------------------------------------------------
(* The files of the file system, as process_file meets them *)

RECURSIVE PathChars(_)
\* the text of a path: its directory names and its file name joined by "/"
PathChars(p) ==
    IF Len(p) = 1 THEN p[1] ELSE <<p[1], "/">> \o PathChars(Tail(p))

MainKey == "Package"

MainEnv == [native |-> TRUE, pywin32 |-> TRUE]

\* a.exe carries the requested key; B.DLL carries only a ProductName, under the
\* neutral Windows-1252 variant, and a fixed record 1.2.3.4; k.eXe has no
\* version resource
MainBuffer(name) ==
    IF name = N_a_exe
    THEN [trans |-> TableOf(<< <<1033, 1200>> >>),
          strs |-> [p \in {<<V_040904B0, "Package">>} |-> StrOf(<<"P">>)],
          fixed |-> [kind |-> "ok", len |-> SizeofFixedInfo, ms |-> <<2, 0, 1, 0>>, ls |-> <<4, 0, 3, 0>>]]
    ELSE [trans |-> QueryFail,
          strs |-> [p \in {<<V_000004E4, "ProductName">>} |-> StrOf(<<"N", " ">>)],
          fixed |-> [kind |-> "ok", len |-> SizeofFixedInfo, ms |-> <<2, 0, 1, 0>>, ls |-> <<4, 0, 3, 0>>]]

\* the file at a path, its os.stat answering st
FileAt(path, st) ==
    LET name == path[Len(path)]
    IN  [path |-> PathChars(path), stat |-> st, mtime |-> 1, size |-> Len(name),
         load |-> IF name = N_k_eXe THEN "nosize" ELSE "ok",
         buffer |-> MainBuffer(name)]

----------------------------------------------------------------------------
(* main: marker file, scan, worker count, pool, CSV *)

RootSeqs == UNION { [1..n -> RootSpellings] : n \in 0..MaxRoots }

CsvHeader == <<"PercorsoCompleto", "Package", "DataOra", "Dimensione">>

MainIdle ==
    /\ pc = "idle" /\ semFile = FALSE /\ semPath = "None" /\ roots = <<>>
    /\ allFiles = <<>> /\ maxThreads = 0 /\ pending = <<>> /\ running = {}
    /\ finished = {} /\ yielded = {} /\ taken = <<>> /\ results = <<>>
    /\ csv = [opened |-> FALSE, lines |-> <<>>, closed |-> FALSE]
    /\ raised = FALSE /\ removal = "none"

MainInit ==
    /\ pc = "start" /\ semFile = FALSE /\ semPath = "None" /\ roots \in RootSeqs
    /\ allFiles = <<>> /\ maxThreads = 0 /\ pending = <<>> /\ running = {}
    /\ finished = {} /\ yielded = {} /\ taken = <<>> /\ results = <<>>
    /\ csv = [opened |-> FALSE, lines |-> <<>>, closed |-> FALSE]
    /\ raised = FALSE /\ removal = "none"

\* lines 452-464: with no --root-path a folder is picked, or main returns
ChooseRoots ==
    /\ pc = "start"
    /\ IF roots # <<>>
       THEN pc' = "create" /\ roots' = roots
       ELSE \/ \E selected_path \in RootSpellings :
                 roots' = <<selected_path>> /\ pc' = "create"
            \/ roots' = roots /\ pc' = "end"
    /\ UNCHANGED <<q, f, tc, semFile, semPath, allFiles, maxThreads, pending, running,
                   finished, yielded, taken, results, csv, raised, removal>>

\* create_semaphore_file: the path when the file was written; None when open or
\* a write raised (after open the file exists)
CreateSemaphore ==
    /\ pc = "create"
    /\ \/ semFile' = TRUE /\ semPath' = "999_VOGG.TXT"
       \/ semFile' = semFile /\ semPath' = "None"
       \/ semFile' = TRUE /\ semPath' = "None"
    /\ pc' = "scan"
    /\ UNCHANGED <<q, f, tc, roots, allFiles, maxThreads, pending, running, finished,
                   yielded, taken, results, csv, raised, removal>>

\* lines 481-484: "return" inside the try block leaves through the finally block
AfterScan(all_files) == IF all_files = <<>> THEN "finally" ELSE "threads"

\* lines 479-484
ScanFiles ==
    /\ pc = "scan"
    /\ allFiles' = scan_files(roots)
    /\ pc' = AfterScan(allFiles')
    /\ UNCHANGED <<q, f, tc, semFile, semPath, roots, maxThreads, pending, running,
                   finished, yielded, taken, results, csv, raised, removal>>

\* lines 486-493
ComputeThreads ==
    /\ pc = "threads"
    /\ \E arg \in MainThreadArgs, logical_processors \in MainCpus :
         maxThreads' = WorkerCount(arg, logical_processors)
    /\ pc' = "submit"
    /\ UNCHANGED <<q, f, tc, semFile, semPath, roots, allFiles, pending, running,
                   finished, yielded, taken, results, csv, raised, removal>>

\* line 503: one future per file, queued in order
SubmitAll ==
    /\ pc = "submit"
    /\ pending' = [i \in 1..Len(allFiles) |-> i]
    /\ taken' = [i \in 1..Len(allFiles) |-> 0]
    /\ pc' = "pool"
    /\ UNCHANGED <<q, f, tc, semFile, semPath, roots, allFiles, maxThreads, running,
                   finished, yielded, results, csv, raised, removal>>

\* a free worker of the pool dequeues the next task
WorkerTake ==
    /\ pc = "pool"
    /\ pending # <<>>
    /\ Cardinality(running) < maxThreads
    /\ running' = running \cup {Head(pending)}
    /\ taken' = [taken EXCEPT ![Head(pending)] = @ + 1]
    /\ pending' = Tail(pending)
    /\ UNCHANGED <<q, f, tc, pc, semFile, semPath, roots, allFiles, maxThreads,
                   finished, yielded, results, csv, raised, removal>>

\* a worker runs process_file on its task to the end and the future is done; st is
\* what the file's os.stat does at that moment
WorkerFinish ==
    /\ pc = "pool"
    /\ \E i \in running, st \in {"ok", "fail"} :
         /\ finished' = finished \cup
                {[task |-> i, st |-> st,
                  result |-> process_file(FileAt(allFiles[i], st), MainKey, MainEnv)]}
         /\ running' = running \ {i}
    /\ UNCHANGED <<q, f, tc, pc, semFile, semPath, roots, allFiles, maxThreads,
                   pending, yielded, taken, results, csv, raised, removal>>

CollectKeepNoneMutant(results_, result) == Append(results_, result)

\* lines 506-508
CollectResult(results_, result) ==
    IF ~result.isNone THEN Append(results_, result) ELSE results_

\* as_completed hands the main thread a finished future it has not handed yet
Collect ==
    /\ pc = "pool"
    /\ \E x \in finished :
         /\ x.task \notin yielded
         /\ results' = CollectResult(results, x.result)
         /\ yielded' = yielded \cup {x.task}
    /\ UNCHANGED <<q, f, tc, pc, semFile, semPath, roots, allFiles, maxThreads,
                   pending, running, finished, taken, csv, raised, removal>>

AfterPoolAlwaysWritesMutant(results_) == "csv"

\* line 511: "if results"
AfterPool(results_) == IF results_ # <<>> THEN "csv" ELSE "finally"

\* every future was handed over: the executor shuts down
PoolDone ==
    /\ pc = "pool"
    /\ pending = <<>> /\ running = {}
    /\ yielded = {x.task : x \in finished}
    /\ pc' = AfterPool(results)
    /\ UNCHANGED <<q, f, tc, semFile, semPath, roots, allFiles, maxThreads, pending,
                   running, finished, yielded, taken, results, csv, raised, removal>>

\* line 512: open(output_csv_path, 'w') truncates the file, or raises
OpenCsv ==
    /\ pc = "csv"
    /\ \/ /\ csv' = [opened |-> TRUE, lines |-> <<>>, closed |-> FALSE]
          /\ pc' = "rows" /\ raised' = raised
       \/ csv' = csv /\ pc' = "finally" /\ raised' = TRUE
    /\ UNCHANGED <<q, f, tc, semFile, semPath, roots, allFiles, maxThreads, pending,
                   running, finished, yielded, taken, results, removal>>

\* lines 516-518: the header, then one row per result; a write may raise
WriteCsvLine ==
    /\ pc = "rows"
    /\ Len(csv.lines) < Len(results) + 1
    /\ \/ /\ csv' = [csv EXCEPT !.lines = Append(@, IF @ = <<>> THEN CsvHeader
                                                     ELSE results[Len(@)])]
          /\ pc' = pc /\ raised' = raised
       \/ csv' = [csv EXCEPT !.closed = TRUE] /\ pc' = "finally" /\ raised' = TRUE
    /\ UNCHANGED <<q, f, tc, semFile, semPath, roots, allFiles, maxThreads, pending,
                   running, finished, yielded, taken, results, removal>>

\* the with block ends: the file is closed
CloseCsv ==
    /\ pc = "rows"
    /\ Len(csv.lines) = Len(results) + 1
    /\ csv' = [csv EXCEPT !.closed = TRUE]
    /\ pc' = "finally"
    /\ UNCHANGED <<q, f, tc, semFile, semPath, roots, allFiles, maxThreads, pending,
                   running, finished, yielded, taken, results, raised, removal>>

\* the finally block: remove_semaphore_file; os.remove raising is swallowed
RemoveSemaphore ==
    /\ pc = "finally"
    /\ IF semPath # "None" /\ semFile
       THEN \/ semFile' = FALSE /\ removal' = "removed"
            \/ semFile' = TRUE /\ removal' = "failed"
       ELSE semFile' = semFile /\ removal' = "skipped"
    /\ pc' = "end"
    /\ UNCHANGED <<q, f, tc, semPath, roots, allFiles, maxThreads, pending, running,
                   finished, yielded, taken, results, csv, raised>>

MainNext ==
    \/ ChooseRoots \/ CreateSemaphore \/ ScanFiles \/ ComputeThreads \/ SubmitAll
    \/ WorkerTake \/ WorkerFinish \/ Collect \/ PoolDone
    \/ OpenCsv \/ WriteCsvLine \/ CloseCsv \/ RemoveSemaphore

----------------------------------------------------------------------------
(* Vocabulary of the properties, stated without the readers' own loops *)

IsBlank(s) == \A i \in 1..Len(s) : IsSpace(s[i])

MinOf(S) == CHOOSE i \in S : \A j \in S : i <= j
MaxOf(S) == CHOOSE i \in S : \A j \in S : j <= i

\* s without its leading and trailing white space
Trimmed(s) ==
    LET I == {i \in 1..Len(s) : ~IsSpace(s[i])}
    IN  IF I = {} THEN <<>> ELSE SubSeq(s, MinOf(I), MaxOf(I))

\* the string a lookup of key under variant v yields (empty when it fails or raises)
Yields(buffer, key, v) ==
    LET r == QueryString(buffer, v, key)
    IN  IF r.kind = "ok" THEN r.str ELSE <<>>

\* the trimmed value of the first variant, in the order of the sequence, whose
\* lookup yields a string that is not blank; empty when there is none
FirstGoodValue(buffer, key, variants) ==
    LET G == {i \in 1..Len(variants) : ~IsBlank(Yields(buffer, key, variants[i]))}
    IN  IF G = {} THEN <<>> ELSE Trimmed(Yields(buffer, key, variants[MinOf(G)]))

RECURSIVE SplitDots(_, _)
\* the parts of s between its dots, cur being the part in progress
SplitDots(s, cur) ==
    IF s = <<>> THEN <<cur>>
    ELSE IF Head(s) = "." THEN <<cur>> \o SplitDots(Tail(s), <<>>)
    ELSE SplitDots(Tail(s), Append(cur, Head(s)))

IsDigit(c) == \E d \in 0..9 : HexChars[d + 1] = c

RECURSIVE ParseDec(_, _)
\* the number a sequence of decimal digits writes
ParseDec(s, acc) ==
    IF s = <<>> THEN acc
    ELSE ParseDec(Tail(s), 10 * acc + (CHOOSE d \in 0..9 : HexChars[d + 1] = Head(s)))

IsDecimal(s) ==
    /\ s # <<>>
    /\ \A i \in 1..Len(s) : IsDigit(s[i])
    /\ (Len(s) > 1 => s[1] # "0")

\* the k-th 16-bit word of a DWORD in memory (1: low, 2: high)
WordAt(dw, k) == dw[2 * k - 1] + 256 * dw[2 * k]

----------------------------------------------------------------------------
(* C3, C4: the string resolver and the translation table reader *)

\* C3: get_string_from_version_info returns the trimmed value of the first variant,
\* in the order of the given sequence, whose lookup yields a non-blank string, and
\* the empty string when no variant does.
C3_FirstMatchInOrder ==
    q.pc = "done" =>
        q.result = FirstGoodValue(QBuffer(q.strs), QKey, q.translations)

\* C3 witness: the static list is probed, the first variant holds only white space,
\* and the key is found, trimmed, under the last variant 000004E4.
C3_Witness ==
    /\ q.pc = "done"
    /\ q.translations = StaticTranslations
    /\ q.strs[<<V_040904B0, QKey>>] = StrOf(<<" ">>)
    /\ q.strs[<<V_000004E4, QKey>>] = StrOf(<<" ", "b", "\t">>)
    /\ q.result = <<"b">>

\* the code of the k-th 4-byte group of a table
GroupCode(mem, k) ==
    Hex4(mem[4 * k - 3] + 256 * mem[4 * k - 2]) \o Hex4(mem[4 * k - 1] + 256 * mem[4 * k])

\* C4: get_all_available_translations is never empty; a table whose query succeeds
\* with a length that is a positive multiple of 4 gives one code per group in table
\* order; every other case (failure, length 0, length not a multiple of 4) gives
\* exactly the static list.
C4_TableOrStaticList ==
    q.pc \in {"resolve", "done"} =>
        /\ q.translations # <<>>
        /\ IF q.trans.kind = "ok" /\ q.trans.len > 0 /\ q.trans.len % 4 = 0
           THEN q.translations = [k \in 1..(q.trans.len \div 4) |-> GroupCode(q.trans.mem, k)]
           ELSE q.translations = StaticTranslations

----------------------------------------------------------------------------
(* C1, C2, C5: the package value, the label chain and the version of one file *)

FNativeOk == f.env.native /\ f.file.load = "ok"

\* what the requested key resolves to over the file's translations
FKeyValue ==
    IF FNativeOk
    THEN FirstGoodValue(f.file.buffer, FKey, get_all_available_translations(f.file.buffer))
    ELSE <<>>

\* C1: the Package of a record is the requested key's value alone when that lookup
\* is not empty, and otherwise "<label> - <version>" from get_file_version_info.
C1_PackageShape ==
    (f.pc = "done" /\ ~f.record.isNone) =>
        IF FKeyValue # <<>>
        THEN f.record.Package = FKeyValue /\ ~f.info.called
        ELSE /\ f.info.called
             /\ f.record.Package =
                    f.info.product_name \o <<" ", "-", " ">> \o f.info.file_version

\* C1 witness: the key is absent and the record is composed from a ProductName and
\* the fixed record 1.2.3.4.
C1_Witness ==
    /\ f.pc = "done" /\ ~f.record.isNone
    /\ FKeyValue = <<>>
    /\ f.record.Package = <<"N", " ", "-", " ", "1", ".", "2", ".", "3", ".", "4">>

\* the four fields of the chain as the native resolver gives them, OriginalFilename
\* with its extension stripped
FChain ==
    LET tr == get_all_available_translations(f.file.buffer)
        nat(k) == IF FNativeOk THEN FirstGoodValue(f.file.buffer, k, tr) ELSE <<>>
    IN  << nat("ProductName"), nat("FileDescription"), nat("InternalName"),
           splitext_root(nat("OriginalFilename")) >>

FChainHits == {i \in 1..4 : FChain[i] # <<>>}

FStem == splitext_root(basename(f.file.path))

\* the non-empty strings win32api returns for the three keys it probes
FPyStrings ==
    IF f.env.pywin32 /\ f.file.load = "ok"
    THEN { Yields(f.file.buffer, k, PyCodepages[i]) :
             k \in {"ProductName", "FileDescription", "InternalName"},
             i \in 1..Len(PyCodepages) } \ {<<>>}
    ELSE {}

FPyProductHits ==
    IF f.env.pywin32 /\ f.file.load = "ok"
    THEN {i \in 1..Len(PyCodepages) :
            ~IsBlank(Yields(f.file.buffer, "ProductName", PyCodepages[i]))}
    ELSE {}

\* C2: the label is the first non-empty field of the chain, and the
\* file's base name without extension when all four are empty.
C2_FirstFieldOrBaseName ==
    (f.pc = "done" /\ f.info.called) =>
        IF FChainHits # {}
        THEN f.info.product_name = FChain[MinOf(FChainHits)]
        ELSE f.info.product_name = FStem

\* What the chain does, win32api stage included: the label is the first non-empty
\* field of the chain; when all four are empty and win32api returns no string for
\* ProductName, FileDescription or InternalName it is the base name without
\* extension; otherwise it is left by the win32api probes (the trimmed first
\* non-blank ProductName when there is one).
LabelChainThenPywin32 ==
    (f.pc = "done" /\ f.info.called) =>
        IF FChainHits # {}
        THEN f.info.product_name = FChain[MinOf(FChainHits)]
        ELSE IF FPyStrings = {} THEN f.info.product_name = FStem
        ELSE /\ f.info.product_name \in
                    FPyStrings \cup {Trimmed(s) : s \in FPyStrings} \cup {FStem}
             /\ f.info.product_name # <<>>
             /\ FPyProductHits # {} =>
                    f.info.product_name =
                        Trimmed(Yields(f.file.buffer, "ProductName",
                                       PyCodepages[MinOf(FPyProductHits)]))

\* The fourth field is reached: the first three resolve empty and the
\* label is OriginalFilename "o.x" without its extension.
FourthFieldReached ==
    /\ f.pc = "done" /\ f.info.called
    /\ FChainHits = {4}
    /\ f.info.product_name = <<"o">>

FFixedNativeOk ==
    FNativeOk /\ f.file.buffer.fixed.kind = "ok" /\ f.file.buffer.fixed.len >= SizeofFixedInfo

FVersionParts == SplitDots(f.info.file_version, <<>>)

FVersionWords ==
    << WordAt(f.file.buffer.fixed.ms, 2), WordAt(f.file.buffer.fixed.ms, 1),
       WordAt(f.file.buffer.fixed.ls, 2), WordAt(f.file.buffer.fixed.ls, 1) >>

FVersionWellFormed ==
    /\ Len(FVersionParts) = 4
    /\ \A i \in 1..4 : IsDecimal(FVersionParts[i]) /\ ParseDec(FVersionParts[i], 0) \in 0..65535

\* C5: the version is major.minor.build.revision from the words of the
\* fixed record when the native root query succeeds with a full-size record, and
\* exactly 0.0.0.0 in every other case.
C5_NativeOrZero ==
    (f.pc = "done" /\ f.info.called) =>
        /\ FVersionWellFormed
        /\ IF FFixedNativeOk
           THEN [i \in 1..4 |-> ParseDec(FVersionParts[i], 0)] = FVersionWords
           ELSE f.info.file_version = ZeroVersion

\* What the decoder does, win32api stage included: when the native read gives no
\* version and win32api is importable and returns the root record (a non-empty
\* value, whatever its length), the version is built from the words of that record;
\* it is 0.0.0.0 only when neither read gives a record.
VersionNativeThenPywin32OrZero ==
    (f.pc = "done" /\ f.info.called) =>
        /\ FVersionWellFormed
        /\ IF FFixedNativeOk
              \/ (f.env.pywin32 /\ f.file.load = "ok" /\ f.file.buffer.fixed.kind = "ok"
                  /\ f.file.buffer.fixed.len > 0)
           THEN [i \in 1..4 |-> ParseDec(FVersionParts[i], 0)] = FVersionWords
           ELSE f.info.file_version = ZeroVersion

\* The native read is reached: a full-size record with words 65535, 0, 0, 65535 read natively.
FullRecordReadNatively ==
    /\ f.pc = "done" /\ f.info.called /\ FFixedNativeOk /\ ~f.env.pywin32
    /\ f.info.file_version =
         <<"6","5","5","3","5",".","0",".","0",".","6","5","5","3","5">>

----------------------------------------------------------------------------
(* C6: the worker count *)

Clamp(x) == IF x < 1 THEN 1 ELSE IF x > 32 THEN 32 ELSE x

\* C6: the worker count is in [1, 32]; without --max-threads it is
\* clamp(2 x logical processors, 1, 32), and with an explicit integer it is that
\* integer clamped to [1, 32].
C6_WorkerCountClamped ==
    tc.pc = "done" =>
        /\ tc.max_threads \in 1..32
        /\ IF tc.arg.given
           THEN tc.max_threads = Clamp(tc.arg.value)
           ELSE tc.max_threads = Clamp(2 * tc.cpus)

----------------------------------------------------------------------------
(* C7: scan_files *)

Scanned == pc \notin {"idle", "start", "create", "scan"}

IsPrefix(a, b) == Len(a) <= Len(b) /\ SubSeq(b, 1, Len(a)) = a

\* the directories the roots name: those that resolve without raising and exist
GoodRoots ==
    { Normalize(<<>>, roots[i]) : i \in {j \in 1..Len(roots) : "NUL" \notin Range(roots[j])} }
        \cap Dirs

HasExeOrDllExtension(name) ==
    /\ Len(name) >= 4
    /\ Lower(SubSeq(name, Len(name) - 3, Len(name))) \in
          { <<".", "e", "x", "e">>, <<".", "d", "l", "l">> }

AllFilePaths ==
    UNION { {Append(d, DirFiles(d)[k]) : k \in 1..Len(DirFiles(d))} : d \in Dirs }

\* every .exe/.dll file in a directory at or below a good root
ExpectedFiles ==
    { p \in AllFilePaths :
        /\ HasExeOrDllExtension(p[Len(p)])
        /\ \E r \in GoodRoots : IsPrefix(r, SubSeq(p, 1, Len(p) - 1)) }

----------------------------------------------------------------------------
(* C8: the pool *)

PoolOver == pc \in {"csv", "rows", "finally", "end"} /\ allFiles # <<>>

Tasks == 1..Len(allFiles)

\* C8: once the pool is over every task ran exactly once, and the results hold
\* exactly one record, the one process_file made, for each file whose stat
\* succeeded, none for a failed file and no path twice; while the pool runs the
\* results only grow by records of finished tasks.
C8_OneRecordPerGoodFile ==
    /\ pc = "pool" =>
          /\ \A i \in Tasks : taken[i] <= 1
          /\ \A k \in 1..Len(results) :
                \E x \in finished : x.task \in yielded /\ x.result = results[k]
    /\ PoolOver =>
          /\ maxThreads \in 1..32
          /\ \A k \in 1..Len(results) : ~results[k].isNone
          /\ \A i \in Tasks :
                /\ taken[i] = 1
                /\ Cardinality({x \in finished : x.task = i}) = 1
                /\ \A x \in finished : x.task = i =>
                      Cardinality({k \in 1..Len(results) :
                                     results[k].PercorsoCompleto = PathChars(allFiles[i])})
                         = (IF x.st = "ok" THEN 1 ELSE 0)
                /\ \A x \in finished : (x.task = i /\ x.st = "ok") =>
                      \E k \in 1..Len(results) : results[k] = x.result
          /\ Len(results) = Cardinality({x \in finished : x.st = "ok"})

\* C8 witness: three tasks on a pool of two workers, the second file failing, the
\* two records collected against discovery order.
C8_Witness ==
    /\ pc = "end" /\ Len(allFiles) = 3 /\ maxThreads = 2
    /\ \E x \in finished : x.task = 2 /\ x.st = "fail"
    /\ Len(results) = 2
    /\ results[1].PercorsoCompleto = PathChars(allFiles[3])
    /\ results[2].PercorsoCompleto = PathChars(allFiles[1])

----------------------------------------------------------------------------
(* C9: the marker file *)

\* C9: in every run of main that creates the marker file, the marker exists
\* before the scan starts and has been removed when main ends, on every exit path.
C9_MarkerRemovedAtEnd ==
    /\ (semPath # "None" /\ pc \in {"scan", "threads", "submit", "pool", "csv", "rows", "finally"})
          => semFile
    /\ pc = "end" => ~semFile

\* What the finally block does: when create_semaphore_file returned the path, the
\* marker stays until the finally block, which removes it on every exit path unless
\* os.remove raises; when it returned None nothing is removed.
RemovalAttemptedAtEnd ==
    /\ pc \in {"scan", "threads", "submit", "pool", "csv", "rows", "finally"} =>
          removal = "none" /\ (semPath # "None" => semFile)
    /\ pc = "end" =>
          IF semPath # "None"
          THEN removal \in {"removed", "failed"} /\ (semFile <=> removal = "failed")
          ELSE removal \in {"skipped", "none"}

----------------------------------------------------------------------------
(* C10: the CSV *)

RECURSIVE CsvRowsOf(_)
CsvRowsOf(rs) == IF rs = <<>> THEN <<>> ELSE <<Head(rs)>> \o CsvRowsOf(Tail(rs))

\* C10: a run that found no file or produced no record ends without opening the
\* CSV and without raising; the CSV is opened only after every task completed and
\* was collected, with at least one record; its lines are always a prefix of the
\* header followed by the records, and all of them once it was written through.
C10_CsvOnlyWithRecords ==
    /\ (pc = "end" /\ (allFiles = <<>> \/ results = <<>>)) =>
          ~csv.opened /\ csv.lines = <<>> /\ ~raised
    /\ (csv.opened \/ pc \in {"csv", "rows"}) =>
          /\ results # <<>>
          /\ pending = <<>> /\ running = {}
          /\ {x.task : x \in finished} = Tasks /\ yielded = Tasks
    /\ IsPrefix(csv.lines, <<CsvHeader>> \o CsvRowsOf(results))
    /\ (csv.closed /\ ~raised) =>
          /\ Len(csv.lines) = 1 + Len(results)
          /\ csv.lines[1] = CsvHeader
          /\ \A k \in 1..Len(results) : csv.lines[k + 1] = results[k]

\* C10 witness: three files, one failing: the CSV holds the header and two rows.
C10_Witness ==
    /\ pc = "end" /\ ~raised /\ csv.closed
    /\ Len(allFiles) = 3 /\ Len(results) = 2 /\ Len(csv.lines) = 3

----------------------------------------------------------------------------
(* C11: the label of a composed Package value *)

\* C11: the label part of a composed Package value is never empty or white space
\* only: on every path through get_file_version_info, the win32api loops
\* included, a lookup that yields only white space counts as empty, so the chain
\* moves on to the next field and in the end to the file's base name.
C11_LabelNeverBlank ==
    (f.pc = "done" /\ f.info.called) =>
        /\ ~IsBlank(f.info.product_name)
        /\ (~f.record.isNone =>
              f.record.Package =
                  f.info.product_name \o <<" ", "-", " ">> \o f.info.file_version)
        /\ (FChainHits = {} /\ \A s \in FPyStrings : IsBlank(s)) =>
              f.info.product_name = FStem

\* Where the label is blank: only after the win32api loops ran (the native chain
\* gave nothing and win32api is importable) and a probed string was white space.
BlankLabelOnlyFromPywin32 ==
    (f.pc = "done" /\ f.info.called /\ IsBlank(f.info.product_name)) =>
        /\ f.env.pywin32 /\ FChainHits = {}
        /\ f.info.product_name \in FPyStrings

----------------------------------------------------------------------------
(* Specifications *)

Init == MainInit /\ q = QIdle /\ f = FIdle /\ tc = TIdle
Next == MainNext
Spec == Init /\ [][Next]_vars

InitQuery == QInit /\ f = FIdle /\ tc = TIdle /\ MainIdle
NextQuery == QReadTranslations \/ QResolve
SpecQuery == InitQuery /\ [][NextQuery]_vars

InitFile == FInit /\ q = QIdle /\ tc = TIdle /\ MainIdle
NextFile == FProcess
SpecFile == InitFile /\ [][NextFile]_vars

InitThreads == TInit /\ q = QIdle /\ f = FIdle /\ MainIdle
NextThreads == TCompute
SpecThreads == InitThreads /\ [][NextThreads]_vars

====
